---- MODULE Spec2Model ----
(***************************************************************************)
(* A model of prompt_plugin: the history store (history.py), the          *)
(* orchestrator (engine.py), the enhancement pipeline and the category    *)
(* detector (enhancer.py) and the template registry (templates.py).       *)
(*                                                                         *)
(* Text is modelled by TLA+ strings; Python's str operations (lower,      *)
(* split, strip, replace, 'in') are operators over the characters.        *)
(* An Optional[T] value is a sequence of length 0 (None) or 1.            *)
(***************************************************************************)
EXTENDS Integers, Sequences, FiniteSets, TLC

VARIABLES
    entries,   \* HistoryManager._entries: the in-memory list of HistoryEntry
    file,      \* the backing JSON file at HistoryManager._path
    call,      \* the operation that produced this state, with its arguments
    ret,       \* what that operation returned (or the error it raised)
    hist,      \* history variable: issued = the greatest id add has issued
               \* since the last clear (0 when none); phase = "fresh" before
               \* any clear, "cleared" after a clear with no add since,
               \* "first" after the first add since, "later" afterwards
    peer       \* _entries of a second HistoryManager on the same path (the
               \* store of another process), None until it is constructed

vars == <<entries, file, call, ret, hist, peer>>

\* ------------------------------------------------------------------ bounds
MaxEntries == 3
MaxId == 4
MaxTime == 1
DetectMaxWords == 3
EnhanceMaxWords == 9
RenderMaxKeys == 2
EngineMaxEntries == 2
LoadMaxEntries == 2
QueryMaxEntries == 2
QueryMaxLimit == 2
SharedMaxEntries == 2

\* ------------------------------------------------------------ Optional[T]
None == <<>>
Some(x) == <<x>>
IsNone(o) == Len(o) = 0
Value(o) == o[1]

\* ------------------------------------------------------------- models.py
Tone ==
    {"professional", "casual", "technical", "creative", "academic", "friendly"}

\* declaration order of the enum members
TaskCategory ==
    <<"coding", "writing", "analysis", "brainstorming", "summarization",
      "translation", "debugging", "explanation", "general">>

Categories == {TaskCategory[i] : i \in 1..Len(TaskCategory)}

HistoryEntry(id, original, enhanced, category, tone, timestamp) ==
    [id |-> id, original |-> original, enhanced |-> enhanced,
     category |-> category, tone |-> tone, timestamp |-> timestamp,
     starred |-> FALSE]

\* ------------------------------------------------------- generic helpers
RECURSIVE SeqMax(_, _)
\* max((f(x) for x in s), default=d) over a sequence of numbers
SeqMax(s, d) ==
    IF s = <<>> THEN d
    ELSE LET m == SeqMax(Tail(s), d) IN
         IF Len(s) = 1 THEN Head(s)
         ELSE IF Head(s) >= m THEN Head(s) ELSE m

Ids(es) == [i \in 1..Len(es) |-> es[i].id]

\* the set of the ids stored
StoredIds(es) == {es[i].id : i \in 1..Len(es)}

\* a filter that also drops every entry newer than the one named
FilterOutFrom(es, entry_id) == SelectSeq(es, LAMBDA e : e.id < entry_id)

\* [e for e in es if keep(e)], order preserved
RECURSIVE FilterOutId(_, _)
FilterOutId(es, entry_id) ==
    IF es = <<>> THEN <<>>
    ELSE IF Head(es).id # entry_id
         THEN <<Head(es)>> \o FilterOutId(Tail(es), entry_id)
         ELSE FilterOutId(Tail(es), entry_id)

\* ------------------------------------------------------ Python str helpers
UpperLetters == "ABCDEFGHIJKLMNOPQRSTUVWXYZ"
LowerLetters == "abcdefghijklmnopqrstuvwxyz"

\* one character (a string of length 1, or "") lower-cased
LowerChar(c) ==
    IF \E i \in 1..Len(UpperLetters) : SubSeq(UpperLetters, i, i) = c
    THEN LET i == CHOOSE j \in 1..Len(UpperLetters) :
                     SubSeq(UpperLetters, j, j) = c
         IN SubSeq(LowerLetters, i, i)
    ELSE c

RECURSIVE Lower(_)
\* str.lower()
Lower(s) ==
    IF Len(s) <= 1 THEN LowerChar(s)
    ELSE LET h == Len(s) \div 2 IN
         Lower(SubSeq(s, 1, h)) \o Lower(SubSeq(s, h + 1, Len(s)))

\* 'sub in s'
Contains(sub, s) ==
    \E i \in 0..(Len(s) - Len(sub)) : SubSeq(s, i + 1, i + Len(sub)) = sub

\* str.isspace() of one character
IsSpace(c) == c \in {" ", "\n", "\t", "\r", "\f"}

\* len(s.split()): the number of maximal runs of non-whitespace characters
WordCount(s) ==
    Cardinality({i \in 1..Len(s) :
                    /\ ~IsSpace(SubSeq(s, i, i))
                    /\ (i = 1 \/ IsSpace(SubSeq(s, i - 1, i - 1)))})

\* str.strip()
Strip(s) ==
    LET solid == {i \in 1..Len(s) : ~IsSpace(SubSeq(s, i, i))} IN
    IF solid = {} THEN ""
    ELSE LET lo == CHOOSE i \in solid : \A j \in solid : i <= j
             hi == CHOOSE i \in solid : \A j \in solid : j <= i
         IN SubSeq(s, lo, hi)

\* ----------------------------------------- enhancer.py: category detection
\* _CATEGORY_KEYWORDS, in the order the dict literal lists its keys
_CATEGORY_KEYWORDS ==
    << [category |-> "coding", keywords |->
          <<"code", "function", "class", "script", "program", "implement",
            "api", "bug", "error", "syntax", "compile", "algorithm",
            "database", "sql", "python", "javascript", "typescript", "java",
            "rust", "html", "css", "react", "django", "flask", "fastapi",
            "node", "docker", "git">>],
       [category |-> "debugging", keywords |->
          <<"debug", "fix", "error", "traceback", "exception", "crash",
            "broken", "not working", "fails", "issue", "stack trace",
            "segfault">>],
       [category |-> "writing", keywords |->
          <<"write", "draft", "compose", "essay", "article", "blog", "email",
            "letter", "copy", "content", "narrative", "story", "report">>],
       [category |-> "analysis", keywords |->
          <<"analyze", "analyse", "compare", "evaluate", "assess", "review",
            "pros and cons", "tradeoff", "benchmark", "metrics", "data">>],
       [category |-> "brainstorming", keywords |->
          <<"brainstorm", "ideas", "suggest", "creative", "innovate",
            "think of", "come up with", "generate ideas", "possibilities">>],
       [category |-> "summarization", keywords |->
          <<"summarize", "summarise", "summary", "tldr", "tl;dr",
            "key points", "brief", "condense", "shorten", "recap">>],
       [category |-> "translation", keywords |->
          <<"translate", "translation", "convert to", "in spanish",
            "in french", "in german", "in japanese", "in chinese",
            "in hindi", "localize">>],
       [category |-> "explanation", keywords |->
          <<"explain", "what is", "how does", "how do", "why does",
            "teach me", "eli5", "definition", "meaning of", "concept of",
            "understand">>] >>

\* the number of keywords of 'keywords' that occur in 'lower'
KeywordHits(keywords, lower) ==
    Cardinality({i \in 1..Len(keywords) : Contains(keywords[i], lower)})

\* the scores dict of detect_category: one count per TaskCategory member
Scores(text) ==
    LET lower == Lower(text) IN
    [cat \in Categories |->
        IF \E k \in 1..Len(_CATEGORY_KEYWORDS) :
               _CATEGORY_KEYWORDS[k].category = cat
        THEN LET k == CHOOSE j \in 1..Len(_CATEGORY_KEYWORDS) :
                          _CATEGORY_KEYWORDS[j].category = cat
             IN KeywordHits(_CATEGORY_KEYWORDS[k].keywords, lower)
        ELSE 0]

\* a priority rule that needs strictly more debugging hits than coding hits
DebuggingStrictlyAhead(scores) ==
    /\ scores["debugging"] > 0
    /\ scores["coding"] > 0
    /\ scores["debugging"] > scores["coding"]

\* the condition under which detect_category returns debugging at once
DebuggingFirst(scores) ==
    /\ scores["debugging"] > 0
    /\ scores["coding"] > 0
    /\ scores["debugging"] >= scores["coding"]

\* max(scores, key=scores.get) taking the last of the tied keys
LastBest(scores) ==
    LET i == CHOOSE j \in 1..Len(TaskCategory) :
                 /\ \A k \in 1..Len(TaskCategory) :
                        scores[TaskCategory[k]] <= scores[TaskCategory[j]]
                 /\ \A k \in (j + 1)..Len(TaskCategory) :
                        scores[TaskCategory[k]] < scores[TaskCategory[j]]
    IN TaskCategory[i]

\* max(scores, key=scores.get): the first key, in the dict's order (the
\* declaration order of TaskCategory), whose score is the greatest
Best(scores) ==
    LET i == CHOOSE j \in 1..Len(TaskCategory) :
                 /\ \A k \in 1..Len(TaskCategory) :
                        scores[TaskCategory[k]] <= scores[TaskCategory[j]]
                 /\ \A k \in 1..(j - 1) :
                        scores[TaskCategory[k]] < scores[TaskCategory[j]]
    IN TaskCategory[i]

\* a fallback to general that is never taken
NeverGeneral(scores, best) == best

BestOrGeneral(scores, best) == IF scores[best] > 0 THEN best ELSE "general"

detect_category(text) ==
    LET scores == Scores(text) IN
    IF DebuggingFirst(scores) THEN "debugging"
    ELSE BestOrGeneral(scores, Best(scores))

\* --------------------------------------------- enhancer.py: the pipeline
\* _TONE_INSTRUCTIONS (the source's em dash is written -- and its arrows ->:
\* each stays one whitespace-separated word)
_TONE_INSTRUCTIONS ==
    [tone \in Tone |->
        CASE tone = "professional" ->
               "Use a professional, clear, and business-appropriate tone."
          [] tone = "casual" ->
               "Use a relaxed, conversational tone -- like chatting with a friend."
          [] tone = "technical" ->
               "Use precise technical language with proper terminology."
          [] tone = "creative" ->
               "Be creative, expressive, and imaginative in your response."
          [] tone = "academic" ->
               "Use formal academic language with proper citations style."
          [] tone = "friendly" ->
               "Be warm, approachable, and encouraging in your response."]

get_tone_instruction(tone) ==
    IF tone \in DOMAIN _TONE_INSTRUCTIONS THEN _TONE_INSTRUCTIONS[tone]
    ELSE _TONE_INSTRUCTIONS["professional"]

\* wc of _add_specificity: the caller's count when it is positive, else the
\* count of the text handed in
SpecificityWordCount(prompt, original_word_count) ==
    IF original_word_count > 0 THEN original_word_count ELSE WordCount(prompt)

_add_specificity(prompt, original_word_count) ==
    IF SpecificityWordCount(prompt, original_word_count) < 8
    THEN <<prompt \o "\n\nPlease be specific and detailed in your response. "
                  \o "Include concrete examples where relevant.", TRUE>>
    ELSE <<prompt, FALSE>>

\* structure_hints of _add_structure_request
structure_hints ==
    [category \in {"coding", "analysis", "writing", "explanation",
                   "debugging", "brainstorming", "summarization"} |->
        CASE category = "coding" ->
               "\n\nStructure your response with: explanation, code, and usage example."
          [] category = "analysis" ->
               "\n\nOrganize your analysis with clear sections, bullet points, and a conclusion."
          [] category = "writing" ->
               "\n\nUse proper headings, paragraphs, and a logical flow."
          [] category = "explanation" ->
               "\n\nStart with a simple overview, then progressively add detail."
          [] category = "debugging" ->
               "\n\nStructure: identify the bug -> explain the cause -> provide the fix -> suggest prevention."
          [] category = "brainstorming" ->
               "\n\nPresent ideas in a numbered list with brief descriptions."
          [] category = "summarization" ->
               "\n\nProvide an executive summary, then key bullet points."]

\* a structure step that reports itself applied for every category
StructureForEvery(prompt, category) == <<prompt, TRUE>>

_add_structure_request(prompt, category) ==
    IF category \in DOMAIN structure_hints
    THEN <<prompt \o structure_hints[category], TRUE>>
    ELSE <<prompt, FALSE>>

\* roles of _add_role_framing
roles ==
    [category \in Categories |->
        CASE category = "coding" ->
               "You are an expert software engineer with deep knowledge of best practices."
          [] category = "debugging" ->
               "You are a senior developer skilled at diagnosing and fixing complex bugs."
          [] category = "writing" ->
               "You are a skilled writer who crafts engaging, well-structured content."
          [] category = "analysis" ->
               "You are a data analyst who provides clear, evidence-based insights."
          [] category = "brainstorming" ->
               "You are a creative strategist who generates innovative solutions."
          [] category = "explanation" ->
               "You are a patient teacher who explains complex topics clearly."
          [] category = "summarization" ->
               "You are an editor who distills information to its essential points."
          [] category = "translation" ->
               "You are a professional translator who preserves meaning and nuance."
          [] category = "general" ->
               "You are a helpful, knowledgeable assistant."]

_add_role_framing(prompt, category) ==
    LET role == IF category \in DOMAIN roles THEN roles[category]
                ELSE roles["general"]
    IN <<role \o "\n\n" \o prompt, TRUE>>

_add_quality_guardrails(prompt) ==
    <<prompt \o "\n\nImportant guidelines:\n"
             \o "- If you're unsure about something, say so rather than guessing\n"
             \o "- Prioritize accuracy over completeness\n"
             \o "- Use concrete examples to illustrate points", TRUE>>

\* a context test that only asks whether a context was given
IsGiven(o) == ~IsNone(o)

\* truth value of an Optional[str]: given and not the empty string
IsTruthy(o) == ~IsNone(o) /\ Value(o) # ""

\* the "Additional context" block both the pipeline and the engine append
ContextBlock(context) == "\n\nAdditional context:\n" \o context

\* the technique tag is appended only when the step reports it applied
Tag(techniques, applied, name) ==
    IF applied THEN Append(techniques, name) ELSE techniques

enhance_prompt(raw_prompt, tone, category, extra_context) ==
    LET detected == IF IsNone(category) THEN detect_category(raw_prompt)
                    ELSE Value(category)
        p0 == Strip(raw_prompt)
        \* 1. role framing
        r1 == _add_role_framing(p0, detected)
        t1 == Tag(<<>>, r1[2], "role_framing")
        \* 2. tone instruction
        p2 == r1[1] \o "\n\n" \o get_tone_instruction(tone)
        t2 == Append(t1, "tone_styling")
        \* 3. specificity boost
        r3 == _add_specificity(p2, WordCount(raw_prompt))
        t3 == Tag(t2, r3[2], "specificity_boost")
        \* 4. structure request
        r4 == _add_structure_request(r3[1], detected)
        t4 == Tag(t3, r4[2], "structure_guidance")
        \* 5. context injection
        p5 == IF IsTruthy(extra_context)
              THEN r4[1] \o ContextBlock(Value(extra_context)) ELSE r4[1]
        t5 == Tag(t4, IsTruthy(extra_context), "context_injection")
        \* 6. quality guardrails
        r6 == _add_quality_guardrails(p5)
        t6 == Tag(t5, r6[2], "quality_guardrails")
    IN [text |-> r6[1], category |-> detected, techniques |-> t6]

\* ----------------------------------------------------------- templates.py
\* The blueprints are the source's texts; the code fences of the source, three
\* grave accents, are written with three apostrophes.
Template_code_write ==
    [id |-> "code-write", category |-> "coding",
     variables |-> <<"language", "task_description">>,
     template |->
              "Write {language} code that accomplishes the following:\n"
           \o "\n"
           \o "{task_description}\n"
           \o "\n"
           \o "Requirements:\n"
           \o "- Follow best practices and idiomatic patterns for "
           \o "{language}\n"
           \o "- Include clear comments explaining the logic\n"
           \o "- Handle edge cases and errors gracefully\n"
           \o "- Provide example usage"]

Template_code_review ==
    [id |-> "code-review", category |-> "coding",
     variables |-> <<"language", "code">>,
     template |->
              "Perform a detailed code review of the following code:\n"
           \o "\n"
           \o "'''{language}\n"
           \o "{code}\n"
           \o "'''\n"
           \o "\n"
           \o "Evaluate for:\n"
           \o "1. Correctness and potential bugs\n"
           \o "2. Performance and efficiency\n"
           \o "3. Readability and maintainability\n"
           \o "4. Security concerns\n"
           \o "5. Adherence to {language} best practices\n"
           \o "\n"
           \o "Provide specific, actionable suggestions with code "
           \o "examples."]

Template_code_debug ==
    [id |-> "code-debug", category |-> "debugging",
     variables |-> <<"language", "code", "error_message">>,
     template |->
              "I have the following {language} code that is producing an "
           \o "error:\n"
           \o "\n"
           \o "'''{language}\n"
           \o "{code}\n"
           \o "'''\n"
           \o "\n"
           \o "Error message: {error_message}\n"
           \o "\n"
           \o "Please:\n"
           \o "1. Identify the root cause of the error\n"
           \o "2. Explain why the error occurs\n"
           \o "3. Provide the corrected code\n"
           \o "4. Suggest how to prevent similar issues"]

Template_write_article ==
    [id |-> "write-article", category |-> "writing",
     variables |-> <<"topic", "audience", "length", "tone">>,
     template |->
              "Write a comprehensive article about: {topic}\n"
           \o "\n"
           \o "Target audience: {audience}\n"
           \o "Desired length: {length}\n"
           \o "\n"
           \o "Structure the article with:\n"
           \o "- An engaging introduction that hooks the reader\n"
           \o "- Well-organized sections with clear headings\n"
           \o "- Supporting evidence, examples, or data points\n"
           \o "- A compelling conclusion with key takeaways\n"
           \o "\n"
           \o "Tone: {tone}"]

Template_write_email ==
    [id |-> "write-email", category |-> "writing",
     variables |-> <<"purpose", "recipient", "key_points", "tone">>,
     template |->
              "Draft an email with the following details:\n"
           \o "\n"
           \o "Purpose: {purpose}\n"
           \o "Recipient: {recipient}\n"
           \o "Key points to cover:\n"
           \o "{key_points}\n"
           \o "\n"
           \o "Tone: {tone}\n"
           \o "Keep it concise and action-oriented."]

Template_analyze_data ==
    [id |-> "analyze-data", category |-> "analysis",
     variables |-> <<"data", "focus_area">>,
     template |->
              "Analyze the following data/information:\n"
           \o "\n"
           \o "{data}\n"
           \o "\n"
           \o "Please provide:\n"
           \o "1. Key findings and patterns\n"
           \o "2. Notable outliers or anomalies\n"
           \o "3. Trends and correlations\n"
           \o "4. Actionable insights and recommendations\n"
           \o "5. Limitations of this analysis\n"
           \o "\n"
           \o "Focus area: {focus_area}"]

Template_compare_options ==
    [id |-> "compare-options", category |-> "analysis",
     variables |-> <<"options", "criteria">>,
     template |->
              "Compare the following options:\n"
           \o "\n"
           \o "{options}\n"
           \o "\n"
           \o "Evaluation criteria: {criteria}\n"
           \o "\n"
           \o "For each option provide:\n"
           \o "- Pros and cons\n"
           \o "- Best use cases\n"
           \o "- Cost/effort considerations\n"
           \o "- Final recommendation with justification"]

Template_brainstorm_ideas ==
    [id |-> "brainstorm-ideas", category |-> "brainstorming",
     variables |-> <<"topic", "constraints">>,
     template |->
              "Generate creative and diverse ideas for:\n"
           \o "\n"
           \o "{topic}\n"
           \o "\n"
           \o "Constraints: {constraints}\n"
           \o "\n"
           \o "Please provide:\n"
           \o "- At least 10 unique ideas ranging from practical to "
           \o "innovative\n"
           \o "- A brief description of each idea\n"
           \o "- Why each idea could work\n"
           \o "- Quick feasibility rating (Easy / Medium / Hard)"]

Template_summarize_text ==
    [id |-> "summarize-text", category |-> "summarization",
     variables |-> <<"content">>,
     template |->
              "Summarize the following content:\n"
           \o "\n"
           \o "{content}\n"
           \o "\n"
           \o "Provide:\n"
           \o "1. A one-paragraph executive summary\n"
           \o "2. Key bullet points (5-7 items)\n"
           \o "3. Important details that shouldn't be missed\n"
           \o "4. Action items or next steps (if applicable)"]

Template_explain_concept ==
    [id |-> "explain-concept", category |-> "explanation",
     variables |-> <<"concept", "level">>,
     template |->
              "Explain the concept of: {concept}\n"
           \o "\n"
           \o "Target knowledge level: {level}\n"
           \o "\n"
           \o "Please include:\n"
           \o "- A simple, intuitive explanation\n"
           \o "- A real-world analogy\n"
           \o "- Key terminology defined\n"
           \o "- A practical example\n"
           \o "- Common misconceptions to avoid\n"
           \o "- Resources for deeper learning"]

Template_eli5 ==
    [id |-> "eli5", category |-> "explanation",
     variables |-> <<"concept">>,
     template |->
              "Explain {concept} in the simplest possible terms, as if "
           \o "I'm 5 years old.\n"
           \o "\n"
           \o "Use:\n"
           \o "- Everyday analogies and examples\n"
           \o "- Short, simple sentences\n"
           \o "- No jargon or technical terms\n"
           \o "- A fun, engaging tone"]

Template_translate_text ==
    [id |-> "translate-text", category |-> "translation",
     variables |-> <<"source_language", "target_language", "text">>,
     template |->
              "Translate the following text from {source_language} to "
           \o "{target_language}:\n"
           \o "\n"
           \o "{text}\n"
           \o "\n"
           \o "Requirements:\n"
           \o "- Preserve the original meaning, tone, and nuance\n"
           \o "- Use natural phrasing in the target language\n"
           \o "- Note any cultural context that affects the translation\n"
           \o "- Flag any ambiguous phrases with alternative translations"]

\* the registered templates, in registration order
TemplateList ==
    <<Template_code_write,
      Template_code_review,
      Template_code_debug,
      Template_write_article,
      Template_write_email,
      Template_analyze_data,
      Template_compare_options,
      Template_brainstorm_ideas,
      Template_summarize_text,
      Template_explain_concept,
      Template_eli5,
      Template_translate_text>>

\* TEMPLATES: the registry, keyed by template id
TEMPLATES ==
    [id \in {TemplateList[i].id : i \in 1..Len(TemplateList)} |->
        TemplateList[CHOOSE i \in 1..Len(TemplateList) : TemplateList[i].id = id]]

\* parsed JSON values: what the variables argument of render_template holds
Str(v) == [type |-> "str", value |-> v]
Dict(items) == [type |-> "dict", items |-> items]
Number == [type |-> "number"]

\* an operation that ends by raising an exception
Raise(error) == [kind |-> "error", error |-> error]

RECURSIVE ReplaceFirst(_, _, _)
\* s.replace(old, new, 1): only the first occurrence
ReplaceFirst(s, old, new) ==
    LET hits == {i \in 1..(Len(s) - Len(old) + 1) :
                    SubSeq(s, i, i + Len(old) - 1) = old} IN
    IF hits = {} THEN s
    ELSE LET i == CHOOSE h \in hits : \A g \in hits : h <= g IN
         SubSeq(s, 1, i - 1) \o new \o SubSeq(s, i + Len(old), Len(s))

RECURSIVE Replace(_, _, _)
\* s.replace(old, new) for a non-empty old: every occurrence, found left to
\* right without overlap, is replaced; the inserted text is not scanned again
Replace(s, old, new) ==
    LET hits == {i \in 1..(Len(s) - Len(old) + 1) :
                    SubSeq(s, i, i + Len(old) - 1) = old} IN
    IF hits = {} THEN s
    ELSE LET i == CHOOSE h \in hits : \A g \in hits : h <= g IN
         SubSeq(s, 1, i - 1) \o new
             \o Replace(SubSeq(s, i + Len(old), Len(s)), old, new)

Placeholder(var) == "{" \o var \o "}"
Marker(var) == "[" \o var \o "]"

RECURSIVE RenderLoop(_, _, _)
\* the for loop of render_template over the rest of tmpl.variables
RenderLoop(result, variables_left, variables) ==
    IF variables_left = <<>> THEN [kind |-> "text", text |-> result]
    ELSE IF variables.type # "dict" THEN Raise("AttributeError")
    ELSE LET var == Head(variables_left)
             value == IF var \in DOMAIN variables.items
                      THEN variables.items[var] ELSE Str(Marker(var))
         IN IF value.type # "str" THEN Raise("TypeError")
            ELSE RenderLoop(Replace(result, Placeholder(var), value.value),
                            Tail(variables_left), variables)

render_template(template_id, variables) ==
    IF template_id \notin DOMAIN TEMPLATES THEN Raise("ValueError")
    ELSE RenderLoop(TEMPLATES[template_id].template,
                    TEMPLATES[template_id].variables, variables)

\* ------------------------------------------------------------ history.py
\* datetime -> ISO-8601 text, as model_dump(mode="json") writes it
IsoFormat(t) == <<"2026-01-01T00:00:00Z", t>>

model_dump(e) ==
    [id |-> e.id, original |-> e.original, enhanced |-> e.enhanced,
     category |-> e.category, tone |-> e.tone,
     timestamp |-> IsoFormat(e.timestamp), starred |-> e.starred]

\* the document _save writes: the JSON list of the dumped entries
SavedDoc(es) == [exists |-> TRUE, doc |-> [i \in 1..Len(es) |-> model_dump(es[i])]]

NoFile == [exists |-> FALSE, doc |-> <<>>]

_save(es) == file' = SavedDoc(es)

\* an id taken from the length of the list instead of the greatest id
NextIdLen(es) == Len(es) + 1
next_id(es) == SeqMax(Ids(es), 0) + 1

\* the (original, enhanced, category, tone) tuples add is called with
AddInputs ==
    { [original |-> "raw", enhanced |-> "enhanced",
       category |-> "coding", tone |-> "professional"],
      [original |-> "Fix BUG", enhanced |-> "Please fix the bug",
       category |-> "debugging", tone |-> "casual"] }

Times == 1..MaxTime

\* the ids star and delete are called with: stored ones and unknown ones
EntryIds == 0..(MaxId + 1)

\* an add that puts the new entry in front
PrependEntry(es, entry) == <<entry>> \o es

AppendEntry(es, entry) == Append(es, entry)

\* the effect of HistoryManager.add on the store, and the entry it returns
NewEntry(original, enhanced, category, tone, now) ==
    HistoryEntry(next_id(entries), original, enhanced, category, tone, now)

history_add(original, enhanced, category, tone, now) ==
    LET entry == NewEntry(original, enhanced, category, tone, now) IN
    /\ Len(entries) < MaxEntries
    /\ entry.id <= MaxId
    /\ entries' = AppendEntry(entries, entry)
    /\ _save(entries')
    /\ hist' = [issued |-> IF entry.id > hist.issued THEN entry.id ELSE hist.issued,
                phase |-> IF hist.phase = "cleared" THEN "first"
                          ELSE IF hist.phase = "first" THEN "later"
                          ELSE hist.phase]
    /\ UNCHANGED peer

add(original, enhanced, category, tone, now) ==
    /\ history_add(original, enhanced, category, tone, now)
    /\ call' = [name |-> "add"]
    /\ ret' = [kind |-> "entry",
               entry |-> NewEntry(original, enhanced, category, tone, now)]

\* a star that sets the flag instead of toggling it
Starred(e) == [e EXCEPT !.starred = TRUE]

\* e.starred = not e.starred
Toggled(e) == [e EXCEPT !.starred = ~e.starred]

star(entry_id) ==
    /\ call' = [name |-> "star", entry_id |-> entry_id]
    /\ IF \E i \in 1..Len(entries) : entries[i].id = entry_id
       THEN LET i == CHOOSE j \in 1..Len(entries) :
                       /\ entries[j].id = entry_id
                       /\ \A k \in 1..(j - 1) : entries[k].id # entry_id
            IN /\ entries' = [entries EXCEPT ![i] = Toggled(entries[i])]
               /\ _save(entries')
               /\ ret' = [kind |-> "entry", entry |-> entries'[i]]
       ELSE /\ UNCHANGED <<entries, file>>
            /\ ret' = [kind |-> "None"]
    /\ UNCHANGED <<hist, peer>>

delete(entry_id) ==
    /\ call' = [name |-> "delete", entry_id |-> entry_id]
    /\ entries' = FilterOutId(entries, entry_id)
    /\ IF Len(entries') < Len(entries)
       THEN /\ _save(entries')
            /\ ret' = [kind |-> "bool", value |-> TRUE]
       ELSE /\ UNCHANGED file
            /\ ret' = [kind |-> "bool", value |-> FALSE]
    /\ UNCHANGED <<hist, peer>>

ClearedEntries == <<>>

\* a clear that counts after emptying the list
ClearCountAfterReset == Len(ClearedEntries)
ClearCount == Len(entries)

clear ==
    /\ call' = [name |-> "clear"]
    /\ entries' = ClearedEntries
    /\ _save(entries')
    /\ ret' = [kind |-> "int", value |-> ClearCount]
    /\ hist' = [issued |-> 0, phase |-> "cleared"]
    /\ UNCHANGED peer

count == Len(entries)

\* ------------------------------------------- history.py: loading the file
\* JSON null
Null == [type |-> "null"]

\* a JSON list: json.loads of a file that holds the list doc
JsonList(doc) == [type |-> "list", items |-> doc]

\* An element of a JSON list is an object, written as the record of its
\* members, or a value that is no object (Number, Null).
IsJsonObject(v) == "type" \notin DOMAIN v

\* a parse that keeps the date and drops the time of day
ParseIsoDate(text) == 0

\* ISO-8601 text -> datetime, as the timestamp field is validated
ParseIso(text) == text[2]

\* the members HistoryEntry requires (starred has a default)
RequiredFields ==
    {"id", "original", "enhanced", "category", "tone", "timestamp"}

\* HistoryEntry(**e) accepts the object e
Validates(e) ==
    /\ RequiredFields \subseteq DOMAIN e
    /\ e.category \in Categories
    /\ e.tone \in Tone

\* HistoryEntry(**e) for an object that validates
FromJson(e) ==
    [id |-> e.id, original |-> e.original, enhanced |-> e.enhanced,
     category |-> e.category, tone |-> e.tone,
     timestamp |-> ParseIso(e.timestamp),
     starred |-> IF "starred" \in DOMAIN e THEN e.starred ELSE FALSE]

Loaded(es) == [kind |-> "entries", entries |-> es]

RECURSIVE BuildEntries(_)
\* [HistoryEntry(**e) for e in items]: ** of a value that is no mapping is
\* a TypeError, an object that does not validate a ValidationError
BuildEntries(items) ==
    IF items = <<>> THEN Loaded(<<>>)
    ELSE LET e == Head(items) IN
         IF ~IsJsonObject(e) THEN Raise("TypeError")
         ELSE IF ~Validates(e) THEN Raise("ValidationError")
         ELSE LET rest == BuildEntries(Tail(items)) IN
              IF rest.kind = "error" THEN rest
              ELSE Loaded(<<FromJson(e)>> \o rest.entries)

\* the comprehension of _load over the parsed document: a list is walked,
\* an object yields its keys (texts, no mappings), a number or null is not
\* iterable
EntriesOf(raw) ==
    CASE raw.type = "list" -> BuildEntries(raw.items)
      [] raw.type = "dict" ->
           IF DOMAIN raw.items = {} THEN Loaded(<<>>) ELSE Raise("TypeError")
      [] OTHER -> Raise("TypeError")

\* json.loads(self._path.read_text()): a file is unparseable text, a list
\* doc, or another JSON value; ok = FALSE where it raises JSONDecodeError
ReadJson(f) ==
    IF "text" \in DOMAIN f THEN [ok |-> FALSE, value |-> Null]
    ELSE IF "doc" \in DOMAIN f THEN [ok |-> TRUE, value |-> JsonList(f.doc)]
    ELSE [ok |-> TRUE, value |-> f.json]

\* the exceptions _load catches: ValidationError is a ValueError
Caught == {"JSONDecodeError", "ValidationError"}

\* except (json.JSONDecodeError, ValueError)
IsCaught(r) == r.kind = "error" /\ r.error \in Caught

\* _load: the entries a new HistoryManager holds, or the exception that
\* escapes its constructor
_load(f) ==
    IF ~f.exists THEN Loaded(<<>>)
    ELSE LET parsed == ReadJson(f)
             r == IF parsed.ok THEN EntriesOf(parsed.value)
                  ELSE Raise("JSONDecodeError")
         IN IF IsCaught(r) THEN Loaded(<<>>) ELSE r

\* HistoryManager(path): the constructor, run once on the file as found
\* (call.name = "boot" marks the time before it)
__init__ ==
    /\ call.name = "boot"
    /\ call' = [name |-> "__init__"]
    /\ LET r == _load(file) IN
       IF r.kind = "error"
       THEN /\ ret' = r
            /\ entries' = <<>>
       ELSE /\ ret' = [kind |-> "None"]
            /\ entries' = r.entries
    /\ UNCHANGED <<file, hist, peer>>

\* a HistoryManager exists: its constructor has run and raised nothing
Constructed ==
    /\ call.name # "boot"
    /\ ~(call.name = "__init__" /\ ret.kind = "error")

\* ------------------------------------------- history.py: list and search
\* list(reversed(s))
Reversed(s) == [i \in 1..Len(s) |-> s[Len(s) + 1 - i]]

\* a slice that keeps the last 'limit' items
TakeLast(items, limit) ==
    IF limit >= Len(items) THEN items
    ELSE SubSeq(items, Len(items) - limit + 1, Len(items))

\* items[:limit] for limit >= 0
Take(items, limit) ==
    IF limit >= Len(items) THEN items ELSE SubSeq(items, 1, limit)

\* the body of HistoryManager.list
list_items(es, category, limit, starred_only) ==
    LET items == Reversed(es)
        by_category == IF ~IsNone(category)
                       THEN SelectSeq(items,
                                LAMBDA e : e.category = Value(category))
                       ELSE items
        by_star == IF starred_only
                   THEN SelectSeq(by_category, LAMBDA e : e.starred)
                   ELSE by_category
    IN Take(by_star, limit)

list(category, limit, starred_only) ==
    /\ call' = [name |-> "list", category |-> category, limit |-> limit,
                starred_only |-> starred_only]
    /\ ret' = [kind |-> "entries",
               entries |-> list_items(entries, category, limit, starred_only)]
    /\ UNCHANGED <<entries, file, hist, peer>>

\* a match that looks at the original text only
MatchesOriginal(q, e) == Contains(q, Lower(e.original))

\* q in e.original.lower() or q in e.enhanced.lower()
Matches(q, e) ==
    Contains(q, Lower(e.original)) \/ Contains(q, Lower(e.enhanced))

\* the body of HistoryManager.search
search_items(es, query, limit) ==
    LET q == Lower(query)
        results == SelectSeq(Reversed(es), LAMBDA e : Matches(q, e))
    IN Take(results, limit)

search(query, limit) ==
    /\ call' = [name |-> "search", query |-> query, limit |-> limit]
    /\ ret' = [kind |-> "entries",
               entries |-> search_items(entries, query, limit)]
    /\ UNCHANGED <<entries, file, hist, peer>>

\* the count property, read
get_count ==
    /\ call' = [name |-> "count"]
    /\ ret' = [kind |-> "int", value |-> count]
    /\ UNCHANGED <<entries, file, hist, peer>>

\* --------------------------------------------------------------- engine.py
PromptRequest(raw_prompt, tone, category, context, auto_enhance, template_id) ==
    [raw_prompt |-> raw_prompt, tone |-> tone, category |-> category,
     context |-> context, auto_enhance |-> auto_enhance,
     template_id |-> template_id]

\* raw prompts that are JSON documents
JsonVariables == "{\"language\": \"Go\", \"task_description\": \"HTTP server\"}"
JsonNumber == "42"

\* json.loads on the raw prompts the engine is given: the value parsed, or
\* ok = FALSE where json.loads raises JSONDecodeError
json_loads(text) ==
    CASE text = JsonVariables ->
           [ok |-> TRUE,
            value |-> Dict([k \in {"language", "task_description"} |->
                              IF k = "language" THEN Str("Go")
                              ELSE Str("HTTP server")])]
      [] text = JsonNumber -> [ok |-> TRUE, value |-> Number]
      [] OTHER -> [ok |-> FALSE, value |-> Number]

\* the except branch of process: the raw text under the common field names
FallbackVariables(base_prompt) ==
    Dict([k \in {"task_description", "content"} |-> Str(base_prompt)])

TemplateVariables(base_prompt) ==
    IF json_loads(base_prompt).ok THEN json_loads(base_prompt).value
    ELSE FallbackVariables(base_prompt)

\* a template test that only asks whether an id was given
TemplateIsGiven(request) == IsGiven(request.template_id)

\* `if request.template_id:`
HasTemplate(request) == IsTruthy(request.template_id)

\* Step 1 of process: the text the pipeline is given, or the exception
BasePrompt(request) ==
    IF HasTemplate(request)
    THEN render_template(Value(request.template_id),
                         TemplateVariables(request.raw_prompt))
    ELSE [kind |-> "text", text |-> request.raw_prompt]

\* a result whose original is the text the pipeline was given
OriginalFromBase(request, base_prompt) == base_prompt

\* original= of the EnhancedPrompt that process builds
ResultOriginal(request, base_prompt) == request.raw_prompt

\* Steps 1 and 2 of process and the EnhancedPrompt it builds, or the
\* exception render_template raised
ProcessOutcome(request) ==
    LET base == BasePrompt(request) IN
    IF base.kind = "error" THEN base
    ELSE LET e == IF request.auto_enhance
                  THEN enhance_prompt(base.text, request.tone,
                                      request.category, request.context)
                  ELSE [text |-> IF IsTruthy(request.context)
                                 THEN base.text \o ContextBlock(Value(request.context))
                                 ELSE base.text,
                        category |-> IF IsNone(request.category) THEN "general"
                                     ELSE Value(request.category),
                        techniques |-> <<>>]
         IN [kind |-> "result",
             original |-> ResultOriginal(request, base.text),
             enhanced |-> e.text, category |-> e.category,
             tone |-> request.tone, techniques_applied |-> e.techniques]

\* the requests the engine is given
EngineRawPrompts == {"explain recursion", JsonVariables, JsonNumber}

EngineTemplateIds == {None, Some(""), Some("code-write"), Some("nope")}

EngineRequests ==
    {PromptRequest(raw, "professional", None, None, TRUE, t) :
        raw \in EngineRawPrompts, t \in EngineTemplateIds}
    \cup
    {PromptRequest(raw, "technical", Some("writing"),
                   Some("Using Python 3.12"), FALSE, t) :
        raw \in EngineRawPrompts, t \in EngineTemplateIds}
    \cup
    {PromptRequest("explain recursion", "casual", None, x, FALSE, t) :
        x \in {None, Some("")}, t \in {None, Some("code-write")}}

\* what process makes of each request: it depends on the request alone
ProcessOutcomes ==
    {[request |-> r, outcome |-> ProcessOutcome(r)] : r \in EngineRequests}

OutcomeOf(request) ==
    (CHOOSE p \in ProcessOutcomes : p.request = request).outcome

\* PromptEngine.process: an exception leaves the store as it was; otherwise
\* Step 3 adds the result to the history before the result is returned
process(request, now) ==
    LET result == OutcomeOf(request) IN
    /\ Len(entries) < EngineMaxEntries
    /\ call' = [name |-> "process", request |-> request]
    /\ ret' = result
    /\ IF result.kind = "error"
       THEN UNCHANGED <<entries, file, hist, peer>>
       ELSE history_add(result.original, result.enhanced, result.category,
                        result.tone, now)

\* ------------------------------------------------- the store specification
Init ==
    /\ entries = <<>>
    /\ file = NoFile
    /\ call = [name |-> "init"]
    /\ ret = [kind |-> "None"]
    /\ hist = [issued |-> 0, phase |-> "fresh"]
    /\ peer = None

Next ==
    \/ \E a \in AddInputs, now \in Times :
           add(a.original, a.enhanced, a.category, a.tone, now)
    \/ \E entry_id \in EntryIds : star(entry_id)
    \/ \E entry_id \in EntryIds : delete(entry_id)
    \/ clear

Spec == Init /\ [][Next]_vars

\* ------------------------------------------ the detector's specification
\* the words and phrases the detector's input texts are made of
DetectWords ==
    {"fix", "code", "Debug", "javascript", "essay", "generate ideas",
     "hello", "Explain"}

RECURSIVE JoinWords(_, _)
\* sep.join(ws)
JoinWords(ws, sep) ==
    IF ws = <<>> THEN ""
    ELSE IF Len(ws) = 1 THEN ws[1]
    ELSE ws[1] \o sep \o JoinWords(Tail(ws), sep)

DetectTexts ==
    {JoinWords(ws, " ") :
        ws \in UNION {[1..n -> DetectWords] : n \in 0..DetectMaxWords}}

Pending == [kind |-> "pending"]

InitDetect ==
    /\ entries = <<>>
    /\ file = NoFile
    /\ hist = [issued |-> 0, phase |-> "fresh"]
    /\ peer = None
    /\ call \in {[name |-> "detect_category", text |-> t] : t \in DetectTexts}
    /\ ret = Pending

Detect ==
    /\ call.name = "detect_category"
    /\ ret = Pending
    /\ ret' = [kind |-> "category", value |-> detect_category(call.text)]
    /\ UNCHANGED <<entries, file, call, hist, peer>>

NextDetect == Detect

SpecDetect == InitDetect /\ [][NextDetect]_vars

\* ------------------------------------------ the pipeline's specification
\* the words the pipeline's raw prompts are made of
EnhanceWords ==
    <<"fix", "this", "error", "in", "my", "Python", "code", "today",
      "and", "explain", "it", "briefly">>

\* a raw prompt of n words, with whitespace before, between and after them
EnhanceText(n, lead, sep, trail) ==
    lead \o JoinWords([i \in 1..n |-> EnhanceWords[((i - 1) % Len(EnhanceWords)) + 1]],
                      sep) \o trail

EnhanceTexts ==
    {EnhanceText(n, lead, sep, trail) :
        n \in 0..EnhanceMaxWords, lead \in {"", " "}, sep \in {" ", " \t"},
        trail \in {"", "\n"}}

OptionalCategories == {None} \cup {Some(c) : c \in Categories}

Contexts == {None, Some(""), Some("Using Python 3.12")}

InitEnhance ==
    /\ entries = <<>>
    /\ file = NoFile
    /\ hist = [issued |-> 0, phase |-> "fresh"]
    /\ peer = None
    /\ call \in {[name |-> "enhance_prompt", raw_prompt |-> t, tone |-> tone,
                  category |-> c, extra_context |-> x] :
                    t \in EnhanceTexts, tone \in Tone,
                    c \in OptionalCategories, x \in Contexts}
    /\ ret = Pending

Enhance ==
    /\ call.name = "enhance_prompt"
    /\ ret = Pending
    /\ LET r == enhance_prompt(call.raw_prompt, call.tone, call.category,
                               call.extra_context)
       IN ret' = [kind |-> "enhanced", text |-> r.text,
                  category |-> r.category, techniques |-> r.techniques]
    /\ UNCHANGED <<entries, file, call, hist, peer>>

NextEnhance == Enhance

SpecEnhance == InitEnhance /\ [][NextEnhance]_vars

\* ------------------------------------------ the registry's specification
\* ids render_template is called with that no template has
UnknownTemplateIds == {"", "nope", "Code-Write"}

DeclaredVars(template_id) ==
    IF template_id \in DOMAIN TEMPLATES
    THEN {TEMPLATES[template_id].variables[i] :
             i \in 1..Len(TEMPLATES[template_id].variables)}
    ELSE {}

\* the keys a mapping may hold: the declared variables and one undeclared key
RenderKeys(template_id) == DeclaredVars(template_id) \cup {"extra"}

\* the texts a mapping may hold: plain ones, and ones shaped like the
\* placeholder or the marker of the template's first and last variable
RenderValues(template_id) ==
    {"Go", "a{b}c"} \cup
    (IF template_id \in DOMAIN TEMPLATES
     THEN LET vs == TEMPLATES[template_id].variables IN
          {Placeholder(vs[1]), Placeholder(vs[Len(vs)]), Marker(vs[1])}
     ELSE {})

RenderMappings(template_id) ==
    UNION {[keys -> {Str(v) : v \in RenderValues(template_id)}] :
              keys \in {ks \in SUBSET RenderKeys(template_id) :
                           Cardinality(ks) <= RenderMaxKeys}}

InitRender ==
    /\ entries = <<>>
    /\ file = NoFile
    /\ hist = [issued |-> 0, phase |-> "fresh"]
    /\ peer = None
    /\ call \in UNION {{[name |-> "render_template", template_id |-> id,
                          variables |-> Dict(m)] : m \in RenderMappings(id)} :
                            id \in DOMAIN TEMPLATES \cup UnknownTemplateIds}
    /\ ret = Pending

Render ==
    /\ call.name = "render_template"
    /\ ret = Pending
    /\ ret' = render_template(call.template_id, call.variables)
    /\ UNCHANGED <<entries, file, call, hist, peer>>

NextRender == Render

SpecRender == InitRender /\ [][NextRender]_vars

\* -------------------------------------------- the engine's specification
NextEngine ==
    \/ \E request \in EngineRequests, now \in Times : process(request, now)
    \/ clear

SpecEngine == Init /\ [][NextEngine]_vars

\* ------------------------------- the specification of a store over a file
\* entries as an earlier run of the program left them in the file
StoredEntry(id, original, enhanced, category, tone, starred) ==
    [HistoryEntry(id, original, enhanced, category, tone, 1)
        EXCEPT !.starred = starred]

StoredFirst ==
    StoredEntry(1, "raw", "enhanced", "coding", "professional", FALSE)

StoredThird ==
    StoredEntry(3, "Fix BUG", "Please fix the bug", "debugging", "casual", TRUE)

\* an object without the member 'name'
Without(object, name) == [f \in DOMAIN object \ {name} |-> object[f]]

\* a file that holds the JSON value v, which is no list
JsonFile(v) == [exists |-> TRUE, json |-> v]

\* a file whose text is not JSON
Unparseable == [exists |-> TRUE, text |-> "not json"]

\* files that hold a serialized sequence of HistoryEntry records
ValidContents ==
    {SavedDoc(<<>>), SavedDoc(<<StoredFirst>>),
     SavedDoc(<<StoredFirst, StoredThird>>),
     [exists |-> TRUE, doc |-> <<Without(model_dump(StoredFirst), "starred")>>]}

\* files that do not: unparseable text, a number, null, objects, lists
\* whose elements are no records or records HistoryEntry rejects
CorruptContents ==
    {Unparseable, JsonFile(Number), JsonFile(Null), JsonFile(Dict(<<>>)),
     JsonFile(Dict([k \in {"entries"} |-> Number])),
     [exists |-> TRUE, doc |-> <<Number>>],
     [exists |-> TRUE, doc |-> <<model_dump(StoredFirst), Null>>],
     [exists |-> TRUE, doc |-> <<[id |-> 1]>>],
     [exists |-> TRUE,
      doc |-> <<[model_dump(StoredFirst) EXCEPT !.category = "poetry"]>>]}

\* what a new HistoryManager may find at its path
BackingContents == {NoFile} \cup ValidContents \cup CorruptContents

InitLoad ==
    /\ entries = <<>>
    /\ file \in BackingContents
    /\ call = [name |-> "boot"]
    /\ ret = [kind |-> "None"]
    /\ hist = [issued |-> 0, phase |-> "fresh"]
    /\ peer = None

NextLoad ==
    \/ __init__
    \/ /\ Constructed
       /\ Len(entries) < LoadMaxEntries
       /\ \E a \in AddInputs, now \in Times :
              add(a.original, a.enhanced, a.category, a.tone, now)
    \/ Constructed /\ \E entry_id \in EntryIds : star(entry_id)
    \/ Constructed /\ \E entry_id \in EntryIds : delete(entry_id)
    \/ Constructed /\ clear
    \/ Constructed /\ list(None, 20, FALSE)
    \/ Constructed /\ search("fix", 10)
    \/ Constructed /\ get_count

SpecLoad == InitLoad /\ [][NextLoad]_vars

\* ------------------------------------------- the specification of list
\* the category filters list is called with: none, one that entries have,
\* one that no entry has
ListCategories == {None, Some("coding"), Some("writing")}

\* the limits list and search are called with, the default of list included
Limits == (1..QueryMaxLimit) \cup {20}

NextList ==
    \/ /\ Len(entries) < QueryMaxEntries
       /\ \E a \in AddInputs, now \in Times :
              add(a.original, a.enhanced, a.category, a.tone, now)
    \/ \E entry_id \in StoredIds(entries) : star(entry_id)
    \/ \E category \in ListCategories, limit \in Limits,
          starred_only \in BOOLEAN : list(category, limit, starred_only)

SpecList == Init /\ [][NextList]_vars

\* ----------------------------------------- the specification of search
\* the queries search is called with: in the original only, in the enhanced
\* text only, in both, in part of a word, in neither, and the empty query
Queries == {"Raw", "ENHANCED", "FIX", "x b", "zzz", ""}

\* every add at the same reading of the clock: search does not look at it
NextSearch ==
    \/ /\ Len(entries) < QueryMaxEntries
       /\ \E a \in AddInputs :
              add(a.original, a.enhanced, a.category, a.tone, 1)
    \/ \E query \in Queries, limit \in Limits : search(query, limit)

SpecSearch == Init /\ [][NextSearch]_vars

\* ------------------- the specification of two stores on the same path
\* The operations of the two instances never overlap: each action below is
\* one whole operation of one instance.

\* another process constructs its HistoryManager on the same path
peer_init ==
    /\ peer = None
    /\ call' = [name |-> "peer.__init__"]
    /\ LET r == _load(file) IN
       IF r.kind = "error"
       THEN /\ ret' = r
            /\ peer' = None
       ELSE /\ ret' = [kind |-> "None"]
            /\ peer' = Some(r.entries)
    /\ UNCHANGED <<entries, file, hist>>

\* HistoryManager.add, called on the other instance
peer_add(original, enhanced, category, tone, now) ==
    /\ peer # None
    /\ LET es == Value(peer)
           entry == HistoryEntry(next_id(es), original, enhanced, category,
                                 tone, now)
       IN /\ Len(es) < SharedMaxEntries
          /\ entry.id <= MaxId
          /\ peer' = Some(AppendEntry(es, entry))
          /\ _save(Value(peer'))
          /\ call' = [name |-> "peer.add"]
          /\ ret' = [kind |-> "entry", entry |-> entry]
    /\ UNCHANGED <<entries, hist>>

\* HistoryManager.delete, called on the other instance
peer_delete(entry_id) ==
    /\ peer # None
    /\ call' = [name |-> "peer.delete", entry_id |-> entry_id]
    /\ peer' = Some(FilterOutId(Value(peer), entry_id))
    /\ IF Len(Value(peer')) < Len(Value(peer))
       THEN /\ _save(Value(peer'))
            /\ ret' = [kind |-> "bool", value |-> TRUE]
       ELSE /\ UNCHANGED file
            /\ ret' = [kind |-> "bool", value |-> FALSE]
    /\ UNCHANGED <<entries, hist>>

\* HistoryManager.clear, called on the other instance
peer_clear ==
    /\ peer # None
    /\ call' = [name |-> "peer.clear"]
    /\ peer' = Some(ClearedEntries)
    /\ _save(Value(peer'))
    /\ ret' = [kind |-> "int", value |-> Len(Value(peer))]
    /\ UNCHANGED <<entries, hist>>

\* the other process ends (a command-line run), and its instance with it
peer_exit ==
    /\ peer # None
    /\ call' = [name |-> "peer.exit"]
    /\ peer' = None
    /\ ret' = [kind |-> "None"]
    /\ UNCHANGED <<entries, file, hist>>

\* what the first instance adds, and what the other one adds
LocalInput == CHOOSE a \in AddInputs : a.original = "raw"
PeerInput == CHOOSE a \in AddInputs : a.original = "Fix BUG"

NextShared ==
    \/ /\ Len(entries) < SharedMaxEntries
       /\ add(LocalInput.original, LocalInput.enhanced, LocalInput.category,
              LocalInput.tone, 1)
    \/ \E entry_id \in StoredIds(entries) : delete(entry_id)
    \/ clear
    \/ peer_init
    \/ peer_add(PeerInput.original, PeerInput.enhanced, PeerInput.category,
                PeerInput.tone, 1)
    \/ /\ peer # None
       /\ \E entry_id \in StoredIds(Value(peer)) : peer_delete(entry_id)
    \/ peer_clear
    \/ peer_exit

SpecShared == Init /\ [][NextShared]_vars

\* ---------------------------------------------------------------- claims
\* C1: every add step makes count one greater, keeps the entries stored
\* before it in place and puts the new entry last (the newest); the entry it
\* returns is that new entry, not starred, and its id is 1 on an empty store
\* and the greatest stored id plus 1 otherwise.
C1_AddAppendsNextId ==
    [][call'.name = "add" =>
          /\ Len(entries') = Len(entries) + 1
          /\ SubSeq(entries', 1, Len(entries)) = entries
          /\ entries'[Len(entries')] = ret'.entry
          /\ ret'.entry.starred = FALSE
          /\ IF entries = <<>>
             THEN ret'.entry.id = 1
             ELSE /\ ret'.entry.id - 1 \in StoredIds(entries)
                  /\ \A i \in StoredIds(entries) : i < ret'.entry.id]_vars

\* C1 witness: an add on a store that a delete left with the ids <<2>>.
C1_Witness ==
    /\ call.name = "add"
    /\ Len(entries) = 2
    /\ entries[1].id = 2
    /\ ret.entry.id = 3

\* C2 as claimed: the id an add issues is greater than every id issued by an
\* earlier add since the last clear.
C2_Original ==
    [][call'.name = "add" => ret'.entry.id > hist.issued]_vars

\* C2 amended: the id an add issues is greater than the id of every entry
\* stored when it is issued, so stored ids never repeat; the id may equal one
\* issued earlier when the entries that held the greatest ids were deleted.
C2_IdAboveStored ==
    [][call'.name = "add" =>
          \A i \in 1..Len(entries) : ret'.entry.id > entries[i].id]_vars

\* C2 witness: an add that issues an id again: the greatest id issued since
\* the last clear is 3, two entries were deleted, and the add returns 2.
C2_Witness ==
    /\ call.name = "add"
    /\ hist.issued = 3
    /\ ret.entry.id = 2
    /\ Len(entries) = 2

\* C3: a clear step returns the number of entries stored before it, leaves
\* count = 0 and writes the empty list to the backing file; and the first add
\* after a clear returns id 1.
C3_ClearResets ==
    [][/\ call'.name = "clear" =>
            /\ ret'.value = Len(entries)
            /\ Len(entries') = 0
            /\ file' = [exists |-> TRUE, doc |-> <<>>]
       /\ (call'.name = "add" /\ hist.phase = "cleared") =>
            ret'.entry.id = 1]_vars

\* C3 witness: the first add after a clear has just returned.
C3_Witness ==
    /\ call.name = "add"
    /\ hist.phase = "first"

\* C7: whenever the debugging score and the coding score of the text are both
\* positive and the debugging score is at least the coding score, the
\* detector returns debugging, whatever the other categories score.
C7_DebuggingOverCoding ==
    (ret.kind = "category") =>
        LET scores == Scores(call.text) IN
        (/\ scores["debugging"] > 0
         /\ scores["coding"] > 0
         /\ scores["debugging"] >= scores["coding"]) =>
            ret.value = "debugging"

\* C7 witness: debugging and coding tie and a third category scores more.
C7_Witness ==
    /\ ret.kind = "category"
    /\ LET scores == Scores(call.text) IN
       /\ scores["debugging"] > 0
       /\ scores["debugging"] = scores["coding"]
       /\ scores["brainstorming"] > scores["debugging"]

\* C8: when the debugging-over-coding rule does not apply, the detector
\* returns a category whose score is the greatest of all, and it returns
\* general exactly when every category scores zero.
C8_BestOrGeneral ==
    (ret.kind = "category") =>
        LET scores == Scores(call.text) IN
        ~(/\ scores["debugging"] > 0
          /\ scores["coding"] > 0
          /\ scores["debugging"] >= scores["coding"]) =>
            /\ \A c \in Categories : scores[c] <= scores[ret.value]
            /\ (ret.value = "general") <=> (\A c \in Categories : scores[c] = 0)

\* C8 witness: coding scores, the rule does not apply, and another category
\* with a greater score is returned.
C8_Witness ==
    /\ ret.kind = "category"
    /\ ret.value = "brainstorming"
    /\ Scores(call.text)["coding"] > 0

\* C8 witness of the default: no keyword matches.
C8_WitnessGeneral ==
    /\ ret.kind = "category"
    /\ ret.value = "general"
    /\ Len(call.text) > 0

InSeq(x, seq) == \E i \in 1..Len(seq) : seq[i] = x

\* C5 as claimed: specificity_boost is among the techniques exactly when the
\* raw input has fewer than 8 whitespace-separated words, for every input,
\* the inputs of zero words included.
C5_SpecificityIffShort ==
    (ret.kind = "enhanced") =>
        (InSeq("specificity_boost", ret.techniques)
            <=> WordCount(call.raw_prompt) < 8)

\* the order in which the pipeline applies its techniques
TechniqueOrder ==
    <<"role_framing", "tone_styling", "specificity_boost",
      "structure_guidance", "context_injection", "quality_guardrails">>

TechniquePos(name) == CHOOSE i \in 1..Len(TechniqueOrder) : TechniqueOrder[i] = name

\* C6: the techniques list holds only the six technique names, each at most
\* once and in the order of application; role_framing is first, tone_styling
\* second and quality_guardrails last; context_injection is in it exactly
\* when extra_context is a non-empty text.
C6_TechniquesOrdered ==
    (ret.kind = "enhanced") =>
        LET t == ret.techniques IN
        /\ \A i \in 1..Len(t) : InSeq(t[i], TechniqueOrder)
        /\ \A i, j \in 1..Len(t) :
               i < j => TechniquePos(t[i]) < TechniquePos(t[j])
        /\ Len(t) >= 3
        /\ t[1] = "role_framing"
        /\ t[2] = "tone_styling"
        /\ t[Len(t)] = "quality_guardrails"
        /\ InSeq("context_injection", t)
             <=> (call.extra_context # None /\ call.extra_context # Some(""))

\* C6 witness: all six techniques applied.
C6_Witness ==
    /\ ret.kind = "enhanced"
    /\ ret.techniques = TechniqueOrder

\* what C9 says of one declared variable of the rendered template
RenderedVar(var, items, out) ==
    IF var \in DOMAIN items
    THEN /\ Contains(items[var].value, out)
         /\ ~Contains(Placeholder(var), out)
         /\ ~Contains(Marker(var), out)
    ELSE /\ Contains(Marker(var), out)
         /\ ~Contains(Placeholder(var), out)

\* the mapping without the keys the template does not declare
Declared(template_id, items) ==
    [k \in DOMAIN items \cap DeclaredVars(template_id) |-> items[k]]

\* C9 as claimed: for every known template and every mapping, each declared
\* variable that is absent leaves its marker [var] and no {var}; each one
\* supplied leaves its value and neither {var} nor [var]; undeclared keys
\* change nothing.
C9_Original ==
    (ret.kind = "text") =>
        /\ \A var \in DeclaredVars(call.template_id) :
               RenderedVar(var, call.variables.items, ret.text)
        /\ ret = render_template(call.template_id,
                     Dict(Declared(call.template_id, call.variables.items)))

\* no supplied value of a declared variable holds the placeholder {w} or the
\* marker [w] of a declared variable w
PlainValues(template_id, items) ==
    \A k \in DOMAIN items \cap DeclaredVars(template_id) :
        \A w \in DeclaredVars(template_id) :
            /\ ~Contains(Placeholder(w), items[k].value)
            /\ ~Contains(Marker(w), items[k].value)

\* C9 amended: the same, for the mappings whose values for the declared
\* variables hold no placeholder {w} and no marker [w] of a declared
\* variable; undeclared keys change nothing for every mapping.
C9_RenderPlainValues ==
    (ret.kind = "text") =>
        /\ PlainValues(call.template_id, call.variables.items) =>
               \A var \in DeclaredVars(call.template_id) :
                   RenderedVar(var, call.variables.items, ret.text)
        /\ ret = render_template(call.template_id,
                     Dict(Declared(call.template_id, call.variables.items)))

\* C9 witness: a template whose first variable occurs twice, rendered with
\* that variable supplied, another one absent and an undeclared key given.
C9_Witness ==
    /\ ret.kind = "text"
    /\ call.template_id = "code-write"
    /\ DOMAIN call.variables.items = {"language", "extra"}
    /\ call.variables.items["language"] = Str("Go")

\* C4: every process step that returns a result adds exactly one history
\* entry, the newest, whose original, enhanced, category and tone are the
\* result's, and writes the store; the result's original is the request's
\* raw text, also when a template was rendered. (So n such steps with no
\* delete or clear between them make count n greater.)
C4_ProcessAddsOne ==
    [][(call'.name = "process" /\ ret'.kind = "result") =>
          /\ Len(entries') = Len(entries) + 1
          /\ SubSeq(entries', 1, Len(entries)) = entries
          /\ LET e == entries'[Len(entries')] IN
             /\ e.original = ret'.original
             /\ e.enhanced = ret'.enhanced
             /\ e.category = ret'.category
             /\ e.tone = ret'.tone
          /\ ret'.original = call'.request.raw_prompt
          /\ file' = SavedDoc(entries')]_vars

\* C4 witness: a second successful process call, with a rendered template.
C4_Witness ==
    /\ call.name = "process"
    /\ ret.kind = "result"
    /\ call.request.template_id = Some("code-write")
    /\ ret.enhanced # ret.original
    /\ Len(entries) = 2

\* the template id of the request is given and no template is registered
\* under it
UnknownTemplate(request) ==
    /\ request.template_id # None
    /\ Value(request.template_id) \notin DOMAIN TEMPLATES

\* C10 as claimed: render_template fails with the not-found error for every
\* unregistered id, and process with such a template_id fails with that
\* error and leaves the entries and the backing file as they were.
C10_Original ==
    [][(call'.name = "process" /\ UnknownTemplate(call'.request)) =>
          /\ render_template(Value(call'.request.template_id),
                 TemplateVariables(call'.request.raw_prompt)) = Raise("ValueError")
          /\ ret' = Raise("ValueError")
          /\ entries' = entries
          /\ file' = file]_vars

\* C10 amended: render_template fails with the not-found error for every
\* unregistered id; process with an unregistered template_id other than the
\* empty string fails with that error and leaves the entries and the backing
\* file as they were; with the empty string as template_id process renders
\* no template, returns a result and adds its history entry.
C10_UnknownTemplateFails ==
    [][(call'.name = "process" /\ UnknownTemplate(call'.request)) =>
          /\ render_template(Value(call'.request.template_id),
                 TemplateVariables(call'.request.raw_prompt)) = Raise("ValueError")
          /\ IF Value(call'.request.template_id) # ""
             THEN /\ ret' = Raise("ValueError")
                  /\ entries' = entries
                  /\ file' = file
             ELSE /\ ret'.kind = "result"
                  /\ Len(entries') = Len(entries) + 1]_vars

\* C10 witness: process failed on an unknown template id with an entry stored.
C10_Witness ==
    /\ call.name = "process"
    /\ call.request.template_id = Some("nope")
    /\ ret = Raise("ValueError")
    /\ Len(entries) = 1

\* the request names a registered template
KnownTemplate(request) ==
    /\ request.template_id # None
    /\ Value(request.template_id) \in DOMAIN TEMPLATES

\* the raw text parses to a mapping from names to texts
UsableMapping(raw_prompt) ==
    LET parsed == json_loads(raw_prompt) IN
    /\ parsed.ok
    /\ parsed.value.type = "dict"
    /\ \A k \in DOMAIN parsed.value.items : parsed.value.items[k].type = "str"

\* C11 as claimed: every process step with a registered template and a raw
\* text that is no mapping from names to texts (unparseable, or parsed to
\* something else, such as a number) returns a result whose text holds the
\* template rendered with the fallback mapping, and adds one history entry.
C11_MalformedRecovers ==
    [][(/\ call'.name = "process"
        /\ KnownTemplate(call'.request)
        /\ ~UsableMapping(call'.request.raw_prompt)) =>
          LET rendered == render_template(Value(call'.request.template_id),
                              FallbackVariables(call'.request.raw_prompt))
          IN /\ ret'.kind = "result"
             /\ rendered.kind = "text"
             /\ Contains(rendered.text, ret'.enhanced)
             /\ Len(entries') = Len(entries) + 1]_vars

\* the file holds a serialized sequence of HistoryEntry records
ValidBacking(f) ==
    /\ "doc" \in DOMAIN f
    /\ \A i \in 1..Len(f.doc) : IsJsonObject(f.doc[i]) /\ Validates(f.doc[i])

\* C12 as claimed: constructing a store over a file that holds no valid
\* serialized sequence of HistoryEntry records raises nothing and leaves the
\* store empty, and the add that follows the construction returns id 1.
C12_CorruptLoadsEmpty ==
    [][/\ (call'.name = "__init__" /\ file.exists /\ ~ValidBacking(file)) =>
            /\ ret'.kind # "error"
            /\ Len(entries') = 0
       /\ (/\ call.name = "__init__" /\ file.exists /\ ~ValidBacking(file)
           /\ call'.name = "add") =>
            ret'.entry.id = 1]_vars

\* an operation of the store has returned
OperationDone ==
    call.name \in {"add", "star", "delete", "clear", "list", "search", "count"}

\* the operation that returned has changed the stored entries
Mutated ==
    \/ call.name \in {"add", "clear"}
    \/ call.name = "star" /\ ret.kind = "entry"
    \/ call.name = "delete" /\ ret.value

\* C13 as claimed: after every operation of a store -- add, star, delete,
\* clear, list, search, count -- the backing file holds exactly the
\* in-memory sequence of entries.
C13_Original == OperationDone => file = SavedDoc(entries)

\* C13 amended: after every operation a store newly constructed on the same
\* path holds the same entries in the same order (all seven fields), and
\* after every operation that changed the entries or cleared them the file
\* holds exactly the in-memory sequence; until then the file is as it was
\* found, absent or with content that loads as the same entries.
C13_ReloadGivesEntries ==
    /\ Constructed => _load(file) = Loaded(entries)
    /\ (OperationDone /\ Mutated) => file = SavedDoc(entries)
    /\ (OperationDone /\ ~Mutated /\ file # SavedDoc(entries)) =>
           file \in BackingContents

\* C13 witness: a store loaded with two entries whose second, starred one
\* has just been unstarred and written back.
C13_Witness ==
    /\ call.name = "star"
    /\ entries = <<StoredFirst, [StoredThird EXCEPT !.starred = FALSE]>>
    /\ file = SavedDoc(entries)

\* C14: a star step on a stored id flips the starred flag of that entry and
\* changes no other field of it, no other entry, and neither order nor
\* count, and returns the updated entry; a star step that follows a star
\* step on the same id returns the entry with the flag flipped back; a star
\* step on an id not stored returns None and changes neither the entries nor
\* the backing file.
C14_StarToggles ==
    [][call'.name = "star" =>
          IF call'.entry_id \in StoredIds(entries)
          THEN /\ \E i \in 1..Len(entries) :
                    /\ entries[i].id = call'.entry_id
                    /\ entries' = [entries EXCEPT
                                      ![i].starred = ~entries[i].starred]
                    /\ ret' = [kind |-> "entry", entry |-> entries'[i]]
               /\ Len(entries') = Len(entries)
               /\ (/\ call.name = "star"
                   /\ call.entry_id = call'.entry_id
                   /\ ret.kind = "entry") =>
                      ret'.entry =
                          [ret.entry EXCEPT !.starred = ~ret.entry.starred]
          ELSE /\ ret' = [kind |-> "None"]
               /\ entries' = entries
               /\ file' = file]_vars

\* C14 witness: a star has returned an entry, one of two stored, with the
\* flag off: the entry was starred before and is now as it was added.
C14_Witness ==
    /\ call.name = "star"
    /\ ret.kind = "entry"
    /\ ~ret.entry.starred
    /\ Len(entries) = 2

\* the sequence s without its i-th element
RemoveAt(s, i) == SubSeq(s, 1, i - 1) \o SubSeq(s, i + 1, Len(s))

\* C15: a delete step returns true exactly when an entry with the id was
\* stored before it; then that entry alone is removed, the others keep
\* their order, count is one less and the file holds the new sequence;
\* otherwise the entries, count and backing file are unchanged.
C15_DeleteRemovesOne ==
    [][call'.name = "delete" =>
          /\ ret'.value <=> (call'.entry_id \in StoredIds(entries))
          /\ IF ret'.value
             THEN /\ \E i \in 1..Len(entries) :
                       /\ entries[i].id = call'.entry_id
                       /\ entries' = RemoveAt(entries, i)
                  /\ Len(entries') = Len(entries) - 1
                  /\ file' = SavedDoc(entries')
             ELSE /\ entries' = entries
                  /\ file' = file]_vars

\* C15 witness: a delete has removed the middle one of three entries.
C15_Witness ==
    /\ call.name = "delete"
    /\ ret.value
    /\ call.entry_id = 2
    /\ Ids(entries) = <<1, 3>>

Min(a, b) == IF a <= b THEN a ELSE b

\* the index, among the indices 'hits', that has k - 1 of them above it: the
\* k-th newest
NthNewest(hits, k) ==
    CHOOSE i \in hits : Cardinality({j \in hits : j > i}) = k - 1

\* r holds the newest min(limit, m) of the m entries of es at the indices
\* 'hits', newest first
NewestFirst(r, es, hits, limit) ==
    /\ Len(r) = Min(limit, Cardinality(hits))
    /\ \A k \in 1..Len(r) : r[k] = es[NthNewest(hits, k)]

\* C16: a list step with limit >= 1 returns the first min(limit, m) of the
\* m stored entries that pass the filters (category equal to the filter
\* when one is given, starred when starred_only), newest first, never more
\* than limit, and changes neither the entries nor the backing file.
C16_ListNewestFirst ==
    [][(call'.name = "list" /\ call'.limit >= 1) =>
          LET hits == {i \in 1..Len(entries) :
                         /\ call'.category # None =>
                                entries[i].category = Value(call'.category)
                         /\ call'.starred_only => entries[i].starred}
          IN /\ NewestFirst(ret'.entries, entries, hits, call'.limit)
             /\ Len(ret'.entries) <= call'.limit
             /\ entries' = entries
             /\ file' = file]_vars

\* C16 witness: two starred coding entries, listed by category and star
\* with limit 1: the newer one alone is returned.
C16_Witness ==
    /\ call.name = "list"
    /\ call.category = Some("coding")
    /\ call.starred_only
    /\ call.limit = 1
    /\ Len(entries) = 2
    /\ \A i \in 1..2 : entries[i].starred /\ entries[i].category = "coding"
    /\ ret.entries = <<entries[2]>>

\* C17: a search step with limit >= 1 returns the newest min(limit, m) of
\* the m stored entries whose original or enhanced text holds the query
\* when case is ignored, newest first, so no entry that matches in neither
\* field, and changes neither the entries nor the backing file.
C17_SearchNewestFirst ==
    [][(call'.name = "search" /\ call'.limit >= 1) =>
          LET hits == {i \in 1..Len(entries) :
                         \/ Contains(Lower(call'.query),
                                     Lower(entries[i].original))
                         \/ Contains(Lower(call'.query),
                                     Lower(entries[i].enhanced))}
          IN /\ NewestFirst(ret'.entries, entries, hits, call'.limit)
             /\ entries' = entries
             /\ file' = file]_vars

\* C17 witness: an upper-case query found only in the enhanced text of the
\* older of two entries.
C17_Witness ==
    /\ call.name = "search"
    /\ call.query = "ENHANCED"
    /\ Len(entries) = 2
    /\ entries[2].original = "Fix BUG"
    /\ ret.entries = <<entries[1]>>

\* the text each request hands to Step 2: the raw text, or the template
\* rendered from it
BaseTexts ==
    {[request |-> r,
      base |-> IF r.template_id = None \/ r.template_id = Some("")
               THEN [kind |-> "text", text |-> r.raw_prompt]
               ELSE render_template(Value(r.template_id),
                                    TemplateVariables(r.raw_prompt))] :
        r \in EngineRequests}

BaseTextOf(request) == (CHOOSE p \in BaseTexts : p.request = request).base

\* C18: every process step with auto_enhance = false that returns a result
\* returns no techniques, the category override if one is given and general
\* otherwise, and as enhanced text the raw or template-rendered text
\* unchanged, followed by "Additional context:" and the context exactly
\* when the context is a non-empty text; and it adds a history entry with
\* that enhanced text.
C18_PassThrough ==
    [][(/\ call'.name = "process"
        /\ ~call'.request.auto_enhance
        /\ ret'.kind = "result") =>
          LET request == call'.request
              base == BaseTextOf(request).text
          IN /\ ret'.techniques_applied = <<>>
             /\ ret'.category = IF request.category = None THEN "general"
                                ELSE Value(request.category)
             /\ ret'.enhanced =
                    IF request.context # None /\ request.context # Some("")
                    THEN base \o "\n\nAdditional context:\n"
                              \o Value(request.context)
                    ELSE base
             /\ Len(entries') = Len(entries) + 1
             /\ entries'[Len(entries')].enhanced = ret'.enhanced]_vars

\* C18 witness: a request with a template, a context and auto_enhance =
\* false has been processed as the second one.
C18_Witness ==
    /\ call.name = "process"
    /\ ~call.request.auto_enhance
    /\ call.request.template_id = Some("code-write")
    /\ call.request.context = Some("Using Python 3.12")
    /\ ret.kind = "result"
    /\ ret.techniques_applied = <<>>
    /\ Len(entries) = 2

\* C18 witness of the other cases: no override, an empty context.
C18_WitnessPlain ==
    /\ call.name = "process"
    /\ ~call.request.auto_enhance
    /\ call.request.context = Some("")
    /\ ret.kind = "result"
    /\ ret.category = "general"
    /\ ret.enhanced = "explain recursion"

\* the categories that have a structural instruction
Structured ==
    {"coding", "analysis", "writing", "explanation", "debugging",
     "brainstorming", "summarization"}

\* C19: the category enhance_prompt resolves is the override whenever one
\* is given, for each of the nine categories, and detect_category of the
\* raw text otherwise; structure_guidance is among the techniques exactly
\* when the resolved category is one of the seven with a structural
\* instruction, so never for translation or general.
C19_CategoryAndStructure ==
    (ret.kind = "enhanced") =>
        /\ ret.category = IF call.category = None
                          THEN detect_category(call.raw_prompt)
                          ELSE Value(call.category)
        /\ InSeq("structure_guidance", ret.techniques)
              <=> ret.category \in Structured
        /\ ret.category \in {"translation", "general"} =>
              ~InSeq("structure_guidance", ret.techniques)

\* C19 witness: no override, a text the detector files under debugging,
\* and the structural instruction applied.
C19_Witness ==
    /\ ret.kind = "enhanced"
    /\ call.category = None
    /\ ret.category = "debugging"
    /\ InSeq("structure_guidance", ret.techniques)

\* C19 witness of an override against the detector: a debugging text
\* enhanced as a translation, with no structural instruction.
C19_WitnessOverride ==
    /\ ret.kind = "enhanced"
    /\ call.category = Some("translation")
    /\ detect_category(call.raw_prompt) = "debugging"
    /\ ~InSeq("structure_guidance", ret.techniques)

\* C20 as claimed: with the operations of the instances on one path never
\* overlapping, no update is lost: an add step of either instance leaves in
\* the file every entry the file held and the entry added; a delete step
\* leaves every entry the file held but the one deleted; and no two entries
\* in the file share an id.
C20_NoLostUpdate ==
    [][/\ call'.name \in {"add", "peer.add"} =>
            /\ \A i \in 1..Len(file.doc) : InSeq(file.doc[i], file'.doc)
            /\ InSeq(model_dump(ret'.entry), file'.doc)
       /\ call'.name \in {"delete", "peer.delete"} =>
            \A i \in 1..Len(file.doc) :
                file.doc[i].id # call'.entry_id =>
                    InSeq(file.doc[i], file'.doc)
       /\ \A i, j \in 1..Len(file'.doc) :
            file'.doc[i].id = file'.doc[j].id => i = j]_vars

\* the entries of r are in strictly descending id order
DescendingIds(r) == \A i, j \in 1..Len(r) : i < j => r[i].id > r[j].id

\* the operation that returned has added or removed entries (a star changes
\* neither an id nor the order)
EntriesChanged ==
    \/ call.name \in {"add", "clear"}
    \/ call.name = "delete" /\ ret.value

\* C21: in every state reached from the empty store by add, star, delete
\* and clear, the stored entries are in strictly increasing id order, so
\* their ids are pairwise distinct, and what list returns (for every
\* filter) is in strictly descending id order; so is what search returns,
\* looked at after every operation that added or removed entries.
C21_IdsIncreasing ==
    /\ \A i, j \in 1..Len(entries) : i < j => entries[i].id < entries[j].id
    /\ \A i, j \in 1..Len(entries) : entries[i].id = entries[j].id => i = j
    /\ \A category \in ListCategories, starred_only \in BOOLEAN :
           DescendingIds(list_items(entries, category, 20, starred_only))
    /\ EntriesChanged => DescendingIds(search_items(entries, "", 20))

\* C21 witness: three entries with a gap in their ids, left by a delete
\* in the middle and an add, the oldest one starred.
C21_Witness ==
    /\ call.name = "add"
    /\ Ids(entries) = <<1, 3, 4>>
    /\ entries[1].starred

\* the place of a category in the declaration order of TaskCategory
DeclaredPos(category) ==
    CHOOSE i \in 1..Len(TaskCategory) : TaskCategory[i] = category

\* the categories that share the greatest score, when it is positive
Tied(scores) ==
    {c \in Categories :
        scores[c] > 0 /\ \A d \in Categories : scores[d] <= scores[c]}

\* C22: the detector returns the same category whenever it is given the
\* same text; and when the debugging-over-coding rule does not apply and
\* categories tie for the positive greatest score, it returns the tied one
\* that TaskCategory declares first (debugging is declared after writing,
\* analysis, brainstorming, summarization and translation, although the
\* keyword table lists it second).
C22_FirstDeclaredWins ==
    (ret.kind = "category") =>
        LET scores == Scores(call.text)
            tied == Tied(scores)
        IN /\ ret.value = detect_category(call.text)
           /\ (~DebuggingFirst(scores) /\ tied # {}) =>
                  /\ ret.value \in tied
                  /\ \A c \in tied : DeclaredPos(ret.value) <= DeclaredPos(c)

\* C22 witness: debugging ties with writing, coding scores nothing, and
\* writing, declared before debugging, is returned.
C22_Witness ==
    /\ ret.kind = "category"
    /\ ret.value = "writing"
    /\ Tied(Scores(call.text)) = {"debugging", "writing"}

====
